---- MODULE Spec2Model ----
(***************************************************************************)
(* Batch text transformation of transcript segments:                       *)
(*   scripts/context_correct_transcript.py  (cleanup, word-count recovery) *)
(*   scripts/translate_transcript.py        (translation, delimiter        *)
(*                                           recovery)                     *)
(* A text is a sequence of one-character strings, so that strip, split,    *)
(* join, replace and the substring test are computed as Python computes    *)
(* them.  A segment is a record start/end/speaker/text.                    *)
(***************************************************************************)
EXTENDS Integers, Sequences, FiniteSets, TLC

(***************************************************************************)
(* Bounds of the model.                                                    *)
(***************************************************************************)
\* most segments of an input file (after the full chunks of a long cleanup file)
MaxSegs == 2
\* largest --batch-size given to the translation stage
MaxBatch == 2

\* segments per cleanup chunk (context_correct_transcript.py, line 131)
chunk_size == 10

(***************************************************************************)
(* Characters and texts.                                                   *)
(***************************************************************************)
\* a character above code point 127 (stands for U+00E9)
NonAscii == "u00e9"

Whitespace == {" ", "\n", "\t"}

SEGMENT == <<"-", "-", "-", "S", "E", "G", "M", "E", "N", "T", "-", "-", "-">>

SEGMENTO == <<"-", "-", "-", "S", "E", "G", "M", "E", "N", "T", "O", "-", "-", "-">>

Hello == <<"H", "e", "l", "l", "o">>

World == <<"W", "o", "r", "l", "d">>

Hola == <<"H", "o", "l", "a">>

Mundo == <<"M", "u", "n", "d", "o">>

\* the values a segment's 'text' takes in the input files
Texts ==
    { <<>>,
      <<" ">>,
      Hello,
      <<" ">> \o World,
      <<NonAscii, " ", "b">> }

\* the contents the transformer answers with
Responses ==
    { <<>>,
      Hola,
      Hola \o <<"\n">> \o SEGMENT \o <<"\n">> \o Mundo,
      Hola \o <<"\n">> \o SEGMENTO \o <<"\n">> \o Mundo,
      <<"x">> \o SEGMENT \o <<"y">> \o SEGMENT \o <<"z">>,
      <<" ", "x", " ", "y", " ", "z", " ", "w", "\n">>,
      <<"a", " ", "b", " ", "c", " ", "d", " ", "e", " ", "f", " ", "g", " ", "h", " ", "i">> }

\* what one transformer call does: it raises, or it returns a content
Outcomes ==
    { [called |-> TRUE, raised |-> TRUE, content |-> <<>>] }
    \cup { [called |-> TRUE, raised |-> FALSE, content |-> r] : r \in Responses }

\* the texts of a three-segment transcript: "Hello there", "Good morning",
\* "See you"
HelloThere == Hello \o <<" ", "t", "h", "e", "r", "e">>

GoodMorning == <<"G", "o", "o", "d", " ", "m", "o", "r", "n", "i", "n", "g">>

SeeYou == <<"S", "e", "e", " ", "y", "o", "u">>

\* a cleaned text of four words: "Hi there Good day"
HiThereGoodDay ==
    <<"H", "i", " ", "t", "h", "e", "r", "e", " ", "G", "o", "o", "d", " ", "d", "a", "y">>

\* a response whose first piece holds one marker inside the other:
\* "---SEG---SEGMENTO---MENT---\n---SEGMENT---\nMundo"
NestedMarker ==
    <<"-", "-", "-", "S", "E", "G">> \o SEGMENTO \o <<"M", "E", "N", "T", "-", "-", "-">>
    \o <<"\n">> \o SEGMENT \o <<"\n">> \o Mundo

\* what one call of the translation transformer does
TranslateOutcomes ==
    Outcomes \cup { [called |-> TRUE, raised |-> FALSE, content |-> NestedMarker] }

\* what one call of the cleanup transformer does
CleanupOutcomes ==
    Outcomes \cup { [called |-> TRUE, raised |-> FALSE, content |-> HiThereGoodDay] }

\* the entry of a batch for which no call is made
NoCall == [called |-> FALSE, raised |-> FALSE, content |-> <<>>]

Raise == [called |-> TRUE, raised |-> TRUE, content |-> <<>>]

(***************************************************************************)
(* Python's str methods on texts.                                          *)
(***************************************************************************)
Min(a, b) == IF a < b THEN a ELSE b

RECURSIVE lstrip(_)
lstrip(s) ==
    IF s = <<>> THEN <<>>
    ELSE IF Head(s) \in Whitespace THEN lstrip(Tail(s))
    ELSE s

RECURSIVE rstrip(_)
rstrip(s) ==
    IF s = <<>> THEN <<>>
    ELSE IF s[Len(s)] \in Whitespace THEN rstrip(SubSeq(s, 1, Len(s) - 1))
    ELSE s

\* s.strip()
strip(s) == rstrip(lstrip(s))

RECURSIVE split_words(_, _, _)
split_words(s, cur, acc) ==
    IF s = <<>> THEN (IF cur = <<>> THEN acc ELSE Append(acc, cur))
    ELSE IF Head(s) \in Whitespace
         THEN split_words(Tail(s), <<>>, IF cur = <<>> THEN acc ELSE Append(acc, cur))
         ELSE split_words(Tail(s), Append(cur, Head(s)), acc)

\* s.split(): the maximal runs of non-whitespace characters
split(s) == split_words(s, <<>>, <<>>)

RECURSIVE join(_, _)
\* sep.join(list)
join(sep, list) ==
    IF list = <<>> THEN <<>>
    ELSE IF Len(list) = 1 THEN list[1]
    ELSE list[1] \o sep \o join(sep, Tail(list))

startswith(s, p) == Len(s) >= Len(p) /\ SubSeq(s, 1, Len(p)) = p

\* sep in s
contains(s, sep) ==
    \E k \in 1..(Len(s) - Len(sep) + 1) : SubSeq(s, k, k + Len(sep) - 1) = sep

RECURSIVE split_pieces(_, _, _, _)
split_pieces(s, sep, cur, acc) ==
    IF s = <<>> THEN Append(acc, cur)
    ELSE IF startswith(s, sep)
         THEN split_pieces(SubSeq(s, Len(sep) + 1, Len(s)), sep, <<>>, Append(acc, cur))
         ELSE split_pieces(Tail(s), sep, Append(cur, Head(s)), acc)

\* s.split(sep): left to right, non-overlapping, empty pieces kept
split_on(s, sep) == split_pieces(s, sep, <<>>, <<>>)

RECURSIVE replace(_, _)
\* s.replace(old, ""): left to right, non-overlapping
replace(s, old) ==
    IF s = <<>> THEN <<>>
    ELSE IF startswith(s, old) THEN replace(SubSeq(s, Len(old) + 1, Len(s)), old)
    ELSE <<Head(s)>> \o replace(Tail(s), old)

RECURSIVE count_non_ascii(_)
\* sum(1 for c in s if ord(c) > 127)
count_non_ascii(s) ==
    IF s = <<>> THEN 0
    ELSE (IF Head(s) = NonAscii THEN 1 ELSE 0) + count_non_ascii(Tail(s))

\* [seg.get('text', '').strip() for seg in segs]
stripped_texts(segs) == [k \in 1..Len(segs) |-> strip(segs[k].text)]

(***************************************************************************)
(* Cleanup: apply_transcript_cleanup (context_correct_transcript.py).      *)
(***************************************************************************)
\* skip_cleanup looking at the characters only, not at the language
skip_cleanup_IgnoreLanguage(segs, lang) ==
    LET sample_text == join(<<" ">>, stripped_texts(SubSeq(segs, 1, Min(3, Len(segs)))))
        non_ascii == count_non_ascii(sample_text)
        length == IF Len(sample_text) > 1 THEN Len(sample_text) ELSE 1
    IN  10 * non_ascii > 3 * length

\* lines 113-119: translated content is not cleaned (ratio > 0.3, language)
skip_cleanup(segs, lang) ==
    LET sample_text == join(<<" ">>, stripped_texts(SubSeq(segs, 1, Min(3, Len(segs)))))
        non_ascii == count_non_ascii(sample_text)
        length == IF Len(sample_text) > 1 THEN Len(sample_text) ELSE 1
    IN  10 * non_ascii > 3 * length \/ lang # "en"

\* segments[i:i + size], i counted from 0
slice(seq, i, size) == SubSeq(seq, i + 1, Min(i + size, Len(seq)))

\* not any(texts)
no_text(chunk) == \A k \in 1..Len(chunk) : strip(chunk[k].text) = <<>>

\* " ".join(texts): the user content of the cleanup request
combined_text(chunk) == join(<<" ">>, stripped_texts(chunk))

RECURSIVE apply_corrections_NoEmptyCheck(_, _, _)
\* apply_corrections without the test for an empty text (lines 173-175)
apply_corrections_NoEmptyCheck(chunk, cleaned_words, word_index) ==
    IF chunk = <<>> THEN <<>>
    ELSE LET seg == Head(chunk)
             original_seg_text == strip(seg.text)
             seg_word_count == Len(split(original_seg_text))
             cleaned_seg_text ==
                 IF word_index + seg_word_count <= Len(cleaned_words)
                 THEN join(<<" ">>, SubSeq(cleaned_words, word_index + 1,
                                           word_index + seg_word_count))
                 ELSE original_seg_text
         IN  <<[seg EXCEPT !.text = cleaned_seg_text]>>
             \o apply_corrections_NoEmptyCheck(Tail(chunk), cleaned_words,
                                               word_index + seg_word_count)

RECURSIVE apply_corrections_NoLengthCheck(_, _, _)
\* apply_corrections without the test of line 180: the slice of the cleaned
\* words is taken as far as the words go
apply_corrections_NoLengthCheck(chunk, cleaned_words, word_index) ==
    IF chunk = <<>> THEN <<>>
    ELSE LET seg == Head(chunk)
             original_seg_text == strip(seg.text)
             seg_word_count == Len(split(original_seg_text))
             cleaned_seg_text ==
                 join(<<" ">>, SubSeq(cleaned_words, word_index + 1,
                                      Min(word_index + seg_word_count, Len(cleaned_words))))
         IN  IF original_seg_text = <<>>
             THEN <<seg>> \o apply_corrections_NoLengthCheck(Tail(chunk), cleaned_words,
                                                             word_index)
             ELSE <<[seg EXCEPT !.text = cleaned_seg_text]>>
                  \o apply_corrections_NoLengthCheck(Tail(chunk), cleaned_words,
                                                     word_index + seg_word_count)

RECURSIVE apply_corrections_NoAdvanceOnFallback(_, _, _)
\* apply_corrections with line 191 inside the if branch: word_index stays
\* where it is when a segment keeps its own text
apply_corrections_NoAdvanceOnFallback(chunk, cleaned_words, word_index) ==
    IF chunk = <<>> THEN <<>>
    ELSE LET seg == Head(chunk)
             original_seg_text == strip(seg.text)
             seg_word_count == Len(split(original_seg_text))
             fits == word_index + seg_word_count <= Len(cleaned_words)
             cleaned_seg_text ==
                 IF fits
                 THEN join(<<" ">>, SubSeq(cleaned_words, word_index + 1,
                                           word_index + seg_word_count))
                 ELSE original_seg_text
         IN  IF original_seg_text = <<>>
             THEN <<seg>> \o apply_corrections_NoAdvanceOnFallback(Tail(chunk),
                                                                   cleaned_words, word_index)
             ELSE <<[seg EXCEPT !.text = cleaned_seg_text]>>
                  \o apply_corrections_NoAdvanceOnFallback(
                         Tail(chunk), cleaned_words,
                         IF fits THEN word_index + seg_word_count ELSE word_index)

RECURSIVE apply_corrections(_, _, _)
\* lines 170-191: hand the cleaned words back to the segments of the chunk
apply_corrections(chunk, cleaned_words, word_index) ==
    IF chunk = <<>> THEN <<>>
    ELSE LET seg == Head(chunk)
             original_seg_text == strip(seg.text)
             seg_word_count == Len(split(original_seg_text))
             cleaned_seg_text ==
                 IF word_index + seg_word_count <= Len(cleaned_words)
                 THEN join(<<" ">>, SubSeq(cleaned_words, word_index + 1,
                                           word_index + seg_word_count))
                 ELSE original_seg_text
         IN  IF original_seg_text = <<>>
             THEN <<seg>> \o apply_corrections(Tail(chunk), cleaned_words, word_index)
             ELSE <<[seg EXCEPT !.text = cleaned_seg_text]>>
                  \o apply_corrections(Tail(chunk), cleaned_words,
                                       word_index + seg_word_count)

\* cleanup_chunk with an except branch that forgets to copy the chunk
cleanup_chunk_DropOnRaise(chunk, outcome) ==
    IF no_text(chunk) THEN chunk
    ELSE IF outcome.raised THEN <<>>
    ELSE apply_corrections(chunk, split(strip(outcome.content)), 0)

\* lines 135-200: what one chunk adds to cleaned_segments
cleanup_chunk(chunk, outcome) ==
    IF no_text(chunk) \/ outcome.raised
    THEN chunk
    ELSE apply_corrections(chunk, split(strip(outcome.content)), 0)

RECURSIVE cleanup_chunks(_, _, _)
\* lines 134-200: the chunks from offset i on, outs[k] the outcome of chunk k
cleanup_chunks(segs, outs, i) ==
    IF i >= Len(segs) THEN <<>>
    ELSE cleanup_chunk(slice(segs, i, chunk_size), outs[(i \div chunk_size) + 1])
         \o cleanup_chunks(segs, outs, i + chunk_size)

\* lines 109-202: the value the function returns
apply_transcript_cleanup(segs, lang, outs) ==
    IF skip_cleanup(segs, lang) THEN segs ELSE cleanup_chunks(segs, outs, 0)

(***************************************************************************)
(* Translation: translate_text_chunk and translate_transcript_file         *)
(* (translate_transcript.py).                                              *)
(***************************************************************************)
possible_separators ==
    << <<"\n">> \o SEGMENT \o <<"\n">>,
       <<"\n">> \o SEGMENTO \o <<"\n">>,
       <<"\n">> \o SEGMENT \o <<"\n">>,
       SEGMENT,
       SEGMENTO >>

\* line 90: the user content of the translation request
joined_texts(texts) == join(<<"\n">> \o SEGMENT \o <<"\n">>, texts)

\* lines 121-125: split on the first separator that occurs in the response
split_response(translated_text) ==
    LET found == {k \in 1..Len(possible_separators) :
                     contains(translated_text, possible_separators[k])}
    IN  IF found = {} THEN <<translated_text>>
        ELSE split_on(translated_text,
                      possible_separators[CHOOSE k \in found : \A m \in found : k <= m])

\* line 128: strip each piece and delete what is left of the markers
clean_pieces(pieces) ==
    [k \in 1..Len(pieces) |-> replace(replace(strip(pieces[k]), SEGMENT), SEGMENTO)]

\* fit_count without the truncation of line 140
fit_count_NoTruncate(translated_segments, texts) ==
    IF Len(translated_segments) < Len(texts)
    THEN translated_segments \o SubSeq(texts, Len(translated_segments) + 1, Len(texts))
    ELSE translated_segments

\* fit_count padding with the first originals instead of the missing ones
fit_count_PadFromStart(translated_segments, texts) ==
    IF Len(translated_segments) # Len(texts)
    THEN LET padded ==
                 IF Len(translated_segments) < Len(texts)
                 THEN translated_segments
                      \o SubSeq(texts, 1, Len(texts) - Len(translated_segments))
                 ELSE translated_segments
         IN  SubSeq(padded, 1, Len(texts))
    ELSE translated_segments

\* lines 131-140: pad with the originals, then truncate
fit_count(translated_segments, texts) ==
    IF Len(translated_segments) # Len(texts)
    THEN LET padded ==
                 IF Len(translated_segments) < Len(texts)
                 THEN translated_segments
                      \o SubSeq(texts, Len(translated_segments) + 1, Len(texts))
                 ELSE translated_segments
         IN  SubSeq(padded, 1, Len(texts))
    ELSE translated_segments

\* translate_text_chunk with an except branch that returns no texts
translate_text_chunk_NoFallback(texts, outcome) ==
    IF outcome.raised
    THEN <<>>
    ELSE LET fitted == fit_count(clean_pieces(split_response(strip(outcome.content))), texts)
         IN  [k \in 1..Len(fitted) |-> strip(fitted[k])]

\* lines 84-147
translate_text_chunk(texts, outcome) ==
    IF outcome.raised
    THEN texts
    ELSE LET fitted == fit_count(clean_pieces(split_response(strip(outcome.content))), texts)
         IN  [k \in 1..Len(fitted) |-> strip(fitted[k])]

RECURSIVE segment_indices_from(_, _)
\* lines 184-190: the positions (counted from 1) of the segments with text
segment_indices_from(segs, k) ==
    IF k > Len(segs) THEN <<>>
    ELSE (IF strip(segs[k].text) # <<>> THEN <<k>> ELSE <<>>)
         \o segment_indices_from(segs, k + 1)

RECURSIVE texts_from(_, _)
\* lines 183-190: the stripped non-empty texts from position k on, in order
texts_from(segs, k) ==
    IF k > Len(segs) THEN <<>>
    ELSE (IF strip(segs[k].text) # <<>> THEN <<strip(segs[k].text)>> ELSE <<>>)
         \o texts_from(segs, k + 1)

RECURSIVE create_translated_segments_ByContent(_, _, _, _, _)
\* create_translated_segments finding a segment's translation by its text: the
\* translation of the first text to translate that equals the segment's
create_translated_segments_ByContent(segs, indices, texts, k, translated_idx) ==
    IF k > Len(segs) THEN <<>>
    ELSE IF (\E m \in 1..Len(indices) : indices[m] = k) /\ translated_idx < Len(texts)
         THEN LET first == CHOOSE m \in 1..Len(indices) :
                               /\ strip(segs[indices[m]].text) = strip(segs[k].text)
                               /\ \A l \in 1..(m - 1) :
                                      strip(segs[indices[l]].text) # strip(segs[k].text)
              IN  <<[segs[k] EXCEPT !.text = texts[first]]>>
                  \o create_translated_segments_ByContent(segs, indices, texts, k + 1,
                                                          translated_idx + 1)
         ELSE <<segs[k]>>
              \o create_translated_segments_ByContent(segs, indices, texts, k + 1,
                                                      translated_idx)

RECURSIVE create_translated_segments_WrongOriginal(_, _, _, _, _)
\* create_translated_segments copying the segment at translated_idx, not at k
create_translated_segments_WrongOriginal(segs, indices, texts, k, translated_idx) ==
    IF k > Len(segs) THEN <<>>
    ELSE IF (\E m \in 1..Len(indices) : indices[m] = k) /\ translated_idx < Len(texts)
         THEN <<[segs[translated_idx + 1] EXCEPT !.text = texts[translated_idx + 1]]>>
              \o create_translated_segments_WrongOriginal(segs, indices, texts, k + 1,
                                                          translated_idx + 1)
         ELSE <<segs[k]>>
              \o create_translated_segments_WrongOriginal(segs, indices, texts, k + 1,
                                                          translated_idx)

RECURSIVE create_translated_segments(_, _, _, _, _)
\* lines 218-228: the loop over the segments from position k on
create_translated_segments(segs, indices, texts, k, translated_idx) ==
    IF k > Len(segs) THEN <<>>
    ELSE IF (\E m \in 1..Len(indices) : indices[m] = k) /\ translated_idx < Len(texts)
         THEN <<[segs[k] EXCEPT !.text = texts[translated_idx + 1]]>>
              \o create_translated_segments(segs, indices, texts, k + 1, translated_idx + 1)
         ELSE <<segs[k]>>
              \o create_translated_segments(segs, indices, texts, k + 1, translated_idx)

RECURSIVE translate_batches(_, _, _, _)
\* lines 199-211: translated_texts from batch offset i on
translate_batches(texts, size, outs, i) ==
    IF i >= Len(texts) THEN <<>>
    ELSE translate_text_chunk(slice(texts, i, size), outs[(i \div size) + 1])
         \o translate_batches(texts, size, outs, i + size)

\* lines 182-228: the segments the function builds for the output file
translated_segments_of(segs, size, outs) ==
    create_translated_segments(segs, segment_indices_from(segs, 1),
                               translate_batches(texts_from(segs, 1), size, outs, 0), 1, 0)

(***************************************************************************)
(* State.                                                                  *)
(***************************************************************************)
VARIABLES
    stage,               \* "cleanup" or "translate": the script that runs
    language,            \* cleanup: the --language argument
    batch_size,          \* translate: --batch-size; cleanup: chunk_size
    segments,            \* the segment list read from the input file
    pc,                  \* "start", "batches", "save", "done", "failed"
    batch_idx,           \* offset of the next batch (i in the cleanup loop)
    cleaned_segments,    \* cleanup: the list being built
    texts_to_translate,  \* translate: the stripped non-empty texts
    segment_indices,     \* translate: the positions they come from
    translated_texts,    \* translate: the texts returned so far
    translated_segments, \* translate: the reassembled segments
    output,              \* cleanup: the list returned; translate: the list saved
    calls,               \* user content of every transformer call, in order
    outcomes,            \* per batch, in order: what its call did (or NoCall)
    events,              \* per file, in order: "call" and "sleep" (time.sleep)
    api_key,             \* main: an API key is supplied
    estimate_only,       \* main (translate): --estimate-only
    input_dir,           \* main: --input-dir / --transcript-dir
    output_dir,          \* main: --output-dir
    json_files,          \* main: the names glob finds, in the order it gives them
    file_idx,            \* main: position in json_files of the file in hand
    fs,                  \* the files on disk: path -> content
    metadata,            \* translate: top-level keys of the input besides 'segments'
    main_pc,             \* "args", "files", "in_file", "finished", "exit", "crashed"
    success_count,       \* main (translate): files translated and saved
    summary,             \* main (translate): the counts of the closing line
    reads,               \* transcripts opened for processing: path and content
    writes,              \* files written: path, and position of the input file
    log,                 \* per file taken in hand, how it ended
    config,              \* run_pipeline: the choices gathered by the pipeline's main
    pl_pc,               \* run_pipeline: the stage it is at, "returned" at the end
    current_transcript_dir, \* run_pipeline: where the next stage reads
    stage_counter,       \* run_pipeline: number of the next staged directory
    refinements,         \* run_pipeline: times the user asked to refine the cleanup
    stage_runs,          \* run_pipeline: the stages run: directories and outcome
    pipeline_result      \* run_pipeline: "True" or "False" once it has returned

\* what main() keeps and the files it touches
mainvars ==
    << api_key, estimate_only, input_dir, output_dir, json_files, file_idx, fs,
       metadata, main_pc, success_count, summary, reads, writes, log >>

\* what run_pipeline keeps
pipevars ==
    << config, pl_pc, current_transcript_dir, stage_counter, refinements, stage_runs,
       pipeline_result >>

vars ==
    << stage, language, batch_size, segments, pc, batch_idx, cleaned_segments,
       texts_to_translate, segment_indices, translated_texts, translated_segments,
       output, calls, outcomes, events, mainvars, pipevars >>

\* segment number k of a transcript: timing and speaker label, and a text
Segment(k, text) ==
    [ start |-> k - 1,
      end |-> k,
      speaker |-> IF k % 2 = 1 THEN "SPEAKER_00" ELSE "SPEAKER_01",
      text |-> text ]

\* the transcripts of at most MaxSegs segments
Transcripts ==
    UNION { { [k \in 1..n |-> Segment(k, f[k])] : f \in [1..n -> Texts] } : n \in 0..MaxSegs }

\* the texts of the first chunk of a long file: mixed, or all blank
ChunkPatterns ==
    { <<Hello, <<" ">>, <<" ">> \o World, <<NonAscii, " ", "b">>, <<>>>>,
      << <<>>, <<" ">> >> }

\* a transcript of three segments of two words each
GreetingTranscript ==
    [k \in 1..3 |-> Segment(k, <<HelloThere, GoodMorning, SeeYou>>[k])]

\* the transcripts of the cleanup stage: the short ones, long ones made of one
\* full chunk followed by one to MaxSegs more segments, and the greetings
CleanupTranscripts ==
    Transcripts
    \cup UNION { UNION { { [k \in 1..(chunk_size + n) |->
                               Segment(k, IF k <= chunk_size
                                          THEN pat[((k - 1) % Len(pat)) + 1]
                                          ELSE f[k - chunk_size])]
                           : f \in [1..n -> Texts] }
                         : n \in 1..MaxSegs }
                 : pat \in ChunkPatterns }
    \cup { GreetingTranscript }

(***************************************************************************)
(* Files: names, paths and contents.                                       *)
(***************************************************************************)
\* most transcript files in the input directory
MaxFiles == 2

DotJson == <<".", "j", "s", "o", "n">>

\* README.md, written by create_cleanup_readme and create_translation_readme
README == <<"R", "E", "A", "D", "M", "E", ".", "m", "d">>

\* os.path.join(dir, name)
path_join(dir, name) == <<dir, name>>

RECURSIVE rfind(_, _)
\* s.rfind(c), counted from 1; 0 when c does not occur
rfind(s, c) ==
    IF s = <<>> THEN 0
    ELSE IF s[Len(s)] = c THEN Len(s)
    ELSE rfind(SubSeq(s, 1, Len(s) - 1), c)

\* os.path.splitext(name)[0]: cut at the last dot, unless only dots precede it
splitext(name) ==
    LET dotIndex == rfind(name, ".")
    IN  IF \E k \in 1..(dotIndex - 1) : name[k] # "."
        THEN SubSeq(name, 1, dotIndex - 1)
        ELSE name

\* context_correct_transcript.py lines 316-317: f"{stem}_cleaned.json"
cleaned_name(name) ==
    splitext(name) \o <<"_", "c", "l", "e", "a", "n", "e", "d">> \o DotJson

\* args.target_language.lower().replace(' ', '_') for --target-language es
lang_code == <<"e", "s">>

\* get_language_name("es")
target_language == "Spanish"

\* translate_transcript.py lines 425-431: f"{stem}_{lang_code}.json"
translated_name(name) == replace(name, DotJson) \o <<"_">> \o lang_code \o DotJson

\* a dict without keys
EmptyDict == [k \in {} |-> ""]

\* a file json.load cannot read
Malformed == [shape |-> "malformed", segments |-> <<>>, metadata |-> EmptyDict]

\* a JSON array of segments
Flat(segs) == [shape |-> "flat", segments |-> segs, metadata |-> EmptyDict]

\* a JSON object: the segments under 'segments', meta the other keys
Wrapped(segs, meta) == [shape |-> "wrapped", segments |-> segs, metadata |-> meta]

\* the text both stages write to README.md
Readme == [shape |-> "text", segments |-> <<>>, metadata |-> EmptyDict]

\* translate_transcript.py lines 230-244: what is written to the output file
output_data_of(meta, tsegs, ttexts, segs) ==
    IF DOMAIN meta # {}
    THEN Wrapped(tsegs,
                 [k \in DOMAIN meta \cup {"language", "translation_info"} |->
                      IF k = "language" THEN target_language
                      ELSE IF k = "translation_info"
                      THEN [ original_language |->
                                 IF "language" \in DOMAIN meta THEN meta["language"]
                                 ELSE "unknown",
                             target_language |-> target_language,
                             translated_segments |-> Len(ttexts),
                             total_segments |-> Len(segs) ]
                      ELSE meta[k]])
    ELSE Flat(tsegs)

\* the disk after open(path, 'w') and json.dump(content)
write_file(files, path, content) ==
    [p \in DOMAIN files \cup {path} |-> IF p = path THEN content ELSE files[p]]

\* a disk without files
NoFiles == [p \in {} |-> Malformed]

\* the file the functions of a stage work on when the stage is given one file
OneFile == <<"a">> \o DotJson

\* a file of chunk_size + 1 segments: two chunks for the cleanup
LongTranscript ==
    [k \in 1..(chunk_size + 1) |->
        Segment(k, IF k % 2 = 1 THEN Hello ELSE <<" ">>)]

\* the input files of the cleanup runs: name and content
CleanupCatalog ==
    { [name |-> <<"a">> \o DotJson,
       data |-> Flat(<<Segment(1, Hello), Segment(2, <<" ">> \o World)>>)],
      [name |-> cleaned_name(<<"a">> \o DotJson), data |-> Flat(LongTranscript)],
      [name |-> <<"b">> \o DotJson, data |-> Malformed],
      [name |-> <<"c">> \o DotJson,
       data |-> Wrapped(<<Segment(1, Hello)>>, [k \in {"language"} |-> "en"])],
      [name |-> <<"d">> \o DotJson, data |-> Flat(<<>>)],
      [name |-> <<"e">> \o DotJson, data |-> Flat(<<Segment(1, <<NonAscii, " ", "b">>)>>)],
      [name |-> <<"f">> \o DotJson, data |-> Flat(<<Segment(1, <<" ">>)>>)] }

\* the input files of the translation runs: name and content
TranslateCatalog ==
    { [name |-> <<"a">> \o DotJson,
       data |-> Flat(<<Segment(1, Hello), Segment(2, <<" ">> \o World)>>)],
      [name |-> translated_name(<<"a">> \o DotJson),
       data |-> Wrapped(<<Segment(1, Hello)>>, [k \in {"language"} |-> "en"])],
      [name |-> <<"b">> \o DotJson, data |-> Malformed],
      [name |-> <<"c">> \o DotJson, data |-> Wrapped(<<Segment(1, Hello)>>, EmptyDict)],
      [name |-> <<"d">> \o DotJson, data |-> Flat(<<>>)],
      [name |-> <<"e">> \o DotJson, data |-> Flat(<<Segment(1, <<" ">>)>>)] }

RECURSIVE Listings(_, _)
\* what glob can return: up to n files of the catalog, in any order
Listings(catalog, n) ==
    IF n = 0 THEN {<<>>}
    ELSE LET shorter == Listings(catalog, n - 1)
         IN  shorter
             \cup { Append(p[1], p[2]) :
                      p \in { q \in shorter \X catalog :
                                /\ Len(q[1]) = n - 1
                                /\ \A k \in 1..Len(q[1]) : q[1][k].name # q[2].name } }

\* what the transformer does in the runs over a directory
MainOutcomes ==
    { Raise,
      [called |-> TRUE, raised |-> FALSE,
       content |-> Hola \o <<"\n">> \o SEGMENT \o <<"\n">> \o Mundo] }

\* a script run by hand: no pipeline around it
NoPipeline ==
    /\ config = [mode |-> "none"]
    /\ pl_pc = "none"
    /\ current_transcript_dir = <<>>
    /\ stage_counter = 0
    /\ refinements = 0
    /\ stage_runs = <<>>
    /\ pipeline_result = "none"

Init ==
    /\ stage \in {"cleanup", "translate"}
    /\ language \in (IF stage = "cleanup" THEN {"en", "es"} ELSE {"en"})
    /\ batch_size \in (IF stage = "cleanup" THEN {chunk_size} ELSE 1..MaxBatch)
    /\ segments \in (IF stage = "cleanup" THEN CleanupTranscripts ELSE Transcripts)
    /\ pc = "start"
    /\ batch_idx = 0
    /\ cleaned_segments = <<>>
    /\ texts_to_translate = <<>>
    /\ segment_indices = <<>>
    /\ translated_texts = <<>>
    /\ translated_segments = <<>>
    /\ output = <<>>
    /\ calls = <<>>
    /\ outcomes = <<>>
    /\ events = <<>>
    \* main has read the arguments, written README.md and opened the one file
    /\ api_key = TRUE
    /\ estimate_only = FALSE
    /\ input_dir = "in"
    /\ output_dir = "out"
    /\ json_files = <<OneFile>>
    /\ file_idx = 1
    /\ fs = write_file(write_file(NoFiles, path_join("in", OneFile), Flat(segments)),
                       path_join("out", README), Readme)
    /\ metadata = EmptyDict
    /\ main_pc = "in_file"
    /\ success_count = 0
    /\ summary = <<>>
    /\ reads = <<[path |-> path_join("in", OneFile), data |-> Flat(segments)]>>
    /\ writes = <<[path |-> path_join("out", README), file |-> 0]>>
    /\ log = <<>>
    /\ NoPipeline

(***************************************************************************)
(* Cleanup actions.                                                        *)
(***************************************************************************)
\* lines 113-121: translated content is returned as it is
CleanupSkip ==
    /\ stage = "cleanup" /\ pc = "start"
    /\ skip_cleanup(segments, language)
    /\ output' = segments
    /\ pc' = "done"
    /\ UNCHANGED << pipevars, stage, language, batch_size, segments, batch_idx, cleaned_segments,
                    texts_to_translate, segment_indices, translated_texts,
                    translated_segments, calls, outcomes >>
    /\ UNCHANGED << events, mainvars >>

\* lines 123-132: the chunk loop is entered
CleanupStart ==
    /\ stage = "cleanup" /\ pc = "start"
    /\ ~skip_cleanup(segments, language)
    /\ cleaned_segments' = <<>>
    /\ batch_idx' = 0
    /\ pc' = "batches"
    /\ UNCHANGED << pipevars, stage, language, batch_size, segments, texts_to_translate,
                    segment_indices, translated_texts, translated_segments, output,
                    calls, outcomes >>
    /\ UNCHANGED << events, mainvars >>

\* lines 135-141: a chunk without text is copied, no call is made
CleanupChunkNoText ==
    /\ stage = "cleanup" /\ pc = "batches"
    /\ batch_idx < Len(segments)
    /\ LET chunk == slice(segments, batch_idx, chunk_size)
       IN  /\ no_text(chunk)
           /\ cleaned_segments' = cleaned_segments \o cleanup_chunk(chunk, NoCall)
           /\ outcomes' = Append(outcomes, NoCall)
    /\ batch_idx' = batch_idx + chunk_size
    /\ UNCHANGED << pipevars, stage, language, batch_size, segments, pc, texts_to_translate,
                    segment_indices, translated_texts, translated_segments, output,
                    calls >>
    /\ UNCHANGED << events, mainvars >>

\* CleanupChunkCall without the except clause: a failed call ends the stage
CleanupChunkCall_Abort(outcome) ==
    /\ stage = "cleanup" /\ pc = "batches"
    /\ batch_idx < Len(segments)
    /\ LET chunk == slice(segments, batch_idx, chunk_size)
       IN  /\ ~no_text(chunk)
           /\ calls' = Append(calls, combined_text(chunk))
           /\ cleaned_segments' =
                  IF outcome.raised THEN cleaned_segments
                  ELSE cleaned_segments \o cleanup_chunk(chunk, outcome)
           /\ outcomes' = Append(outcomes, outcome)
    /\ events' = events \o (IF outcome.raised THEN <<"call">> ELSE <<"call", "sleep">>)
    /\ batch_idx' = IF outcome.raised THEN batch_idx ELSE batch_idx + chunk_size
    /\ pc' = IF outcome.raised THEN "failed" ELSE pc
    /\ UNCHANGED << pipevars, stage, language, batch_size, segments, texts_to_translate,
                    segment_indices, translated_texts, translated_segments, output >>
    /\ UNCHANGED mainvars

\* CleanupChunkCall without seg.copy() (line 187): the cleaned text is put into
\* the segment of the input list
CleanupChunkCall_InPlace(outcome) ==
    /\ stage = "cleanup" /\ pc = "batches"
    /\ batch_idx < Len(segments)
    /\ LET chunk == slice(segments, batch_idx, chunk_size)
       IN  /\ ~no_text(chunk)
           /\ calls' = Append(calls, combined_text(chunk))
           /\ cleaned_segments' = cleaned_segments \o cleanup_chunk(chunk, outcome)
           /\ segments' = SubSeq(segments, 1, batch_idx)
                          \o cleanup_chunk(chunk, outcome)
                          \o SubSeq(segments, batch_idx + chunk_size + 1, Len(segments))
           /\ outcomes' = Append(outcomes, outcome)
    /\ events' = events \o (IF outcome.raised THEN <<"call">> ELSE <<"call", "sleep">>)
    /\ batch_idx' = batch_idx + chunk_size
    /\ UNCHANGED << pipevars, stage, language, batch_size, pc, texts_to_translate,
                    segment_indices, translated_texts, translated_segments, output >>
    /\ UNCHANGED mainvars

\* lines 135-200: a chunk with text, its call returning or raising
CleanupChunkCall(outcome) ==
    /\ stage = "cleanup" /\ pc = "batches"
    /\ batch_idx < Len(segments)
    /\ LET chunk == slice(segments, batch_idx, chunk_size)
       IN  /\ ~no_text(chunk)
           /\ calls' = Append(calls, combined_text(chunk))
           /\ cleaned_segments' = cleaned_segments \o cleanup_chunk(chunk, outcome)
           /\ outcomes' = Append(outcomes, outcome)
    \* line 194: the pause is in the try block, after the words are handed back
    /\ events' = events \o (IF outcome.raised THEN <<"call">> ELSE <<"call", "sleep">>)
    /\ batch_idx' = batch_idx + chunk_size
    /\ UNCHANGED << pipevars, stage, language, batch_size, segments, pc, texts_to_translate,
                    segment_indices, translated_texts, translated_segments, output >>
    /\ UNCHANGED mainvars

\* line 202
CleanupReturn ==
    /\ stage = "cleanup" /\ pc = "batches"
    /\ batch_idx >= Len(segments)
    /\ output' = cleaned_segments
    /\ pc' = "done"
    /\ UNCHANGED << pipevars, stage, language, batch_size, segments, batch_idx, cleaned_segments,
                    texts_to_translate, segment_indices, translated_texts,
                    translated_segments, calls, outcomes >>
    /\ UNCHANGED << events, mainvars >>

(***************************************************************************)
(* Translation actions.                                                    *)
(***************************************************************************)
\* lines 176-178 and 192-194: nothing is written for a file without text
TranslateNothing ==
    /\ stage = "translate" /\ pc = "start"
    /\ texts_from(segments, 1) = <<>>
    /\ pc' = "failed"
    /\ log' = Append(log, "nothing")
    /\ UNCHANGED << pipevars, stage, language, batch_size, segments, batch_idx, cleaned_segments,
                    texts_to_translate, segment_indices, translated_texts,
                    translated_segments, output, calls, outcomes >>
    /\ UNCHANGED << events, api_key, estimate_only, input_dir, output_dir, json_files,
                    file_idx, fs, metadata, main_pc, success_count, summary, reads,
                    writes >>

\* lines 182-199: the texts to translate are extracted
TranslateStart ==
    /\ stage = "translate" /\ pc = "start"
    /\ texts_from(segments, 1) # <<>>
    /\ texts_to_translate' = texts_from(segments, 1)
    /\ segment_indices' = segment_indices_from(segments, 1)
    /\ translated_texts' = <<>>
    /\ batch_idx' = 0
    /\ pc' = "batches"
    /\ UNCHANGED << pipevars, stage, language, batch_size, segments, cleaned_segments,
                    translated_segments, output, calls, outcomes >>
    /\ UNCHANGED << events, mainvars >>

\* TranslateBatch saving what has been translated so far after every batch
TranslateBatch_SaveEachBatch(outcome) ==
    /\ stage = "translate" /\ pc = "batches"
    /\ batch_idx < Len(texts_to_translate)
    /\ LET batch_texts == slice(texts_to_translate, batch_idx, batch_size)
           output_path == path_join(output_dir, translated_name(json_files[file_idx]))
       IN  /\ calls' = Append(calls, joined_texts(batch_texts))
           /\ translated_texts' = translated_texts \o translate_text_chunk(batch_texts, outcome)
           /\ outcomes' = Append(outcomes, outcome)
           /\ fs' = write_file(fs, output_path,
                               Flat(create_translated_segments(segments, segment_indices,
                                                               translated_texts', 1, 0)))
           /\ writes' = Append(writes, [path |-> output_path, file |-> file_idx])
    /\ events' = events \o (IF batch_idx + batch_size < Len(texts_to_translate)
                             THEN <<"call", "sleep">> ELSE <<"call">>)
    /\ batch_idx' = batch_idx + batch_size
    /\ UNCHANGED << pipevars, stage, language, batch_size, segments, pc, cleaned_segments,
                    texts_to_translate, segment_indices, translated_segments, output >>
    /\ UNCHANGED << api_key, estimate_only, input_dir, output_dir, json_files, file_idx,
                    metadata, main_pc, success_count, summary, reads, log >>

\* TranslateBatch calling once more for a batch whose first call raised
TranslateBatch_RetryOnce(outcome) ==
    /\ stage = "translate" /\ pc = "batches"
    /\ batch_idx < Len(texts_to_translate)
    /\ LET batch_texts == slice(texts_to_translate, batch_idx, batch_size)
           first_try == Len(calls) = Len(outcomes)
           again == outcome.raised /\ first_try
       IN  /\ calls' = Append(calls, joined_texts(batch_texts))
           /\ translated_texts' =
                  IF again THEN translated_texts
                  ELSE translated_texts \o translate_text_chunk(batch_texts, outcome)
           /\ outcomes' = IF again THEN outcomes ELSE Append(outcomes, outcome)
           /\ batch_idx' = IF again THEN batch_idx ELSE batch_idx + batch_size
    /\ events' = events \o <<"call">>
    /\ UNCHANGED << pipevars, stage, language, batch_size, segments, pc, cleaned_segments,
                    texts_to_translate, segment_indices, translated_segments, output >>
    /\ UNCHANGED mainvars

\* lines 202-215: one batch, its call returning or raising
TranslateBatch(outcome) ==
    /\ stage = "translate" /\ pc = "batches"
    /\ batch_idx < Len(texts_to_translate)
    /\ LET batch_texts == slice(texts_to_translate, batch_idx, batch_size)
       IN  /\ calls' = Append(calls, joined_texts(batch_texts))
           /\ translated_texts' = translated_texts \o translate_text_chunk(batch_texts, outcome)
           /\ outcomes' = Append(outcomes, outcome)
    \* lines 213-215: a pause when another batch follows
    /\ events' = events \o (IF batch_idx + batch_size < Len(texts_to_translate)
                             THEN <<"call", "sleep">> ELSE <<"call">>)
    /\ batch_idx' = batch_idx + batch_size
    /\ UNCHANGED << pipevars, stage, language, batch_size, segments, pc, cleaned_segments,
                    texts_to_translate, segment_indices, translated_segments, output >>
    /\ UNCHANGED mainvars

\* lines 217-244: the translated segments are put together
TranslateReassemble ==
    /\ stage = "translate" /\ pc = "batches"
    /\ batch_idx >= Len(texts_to_translate)
    /\ translated_segments' =
           create_translated_segments(segments, segment_indices, translated_texts, 1, 0)
    /\ pc' = "save"
    /\ UNCHANGED << pipevars, stage, language, batch_size, segments, batch_idx, cleaned_segments,
                    texts_to_translate, segment_indices, translated_texts, output,
                    calls, outcomes >>
    /\ UNCHANGED << events, mainvars >>

\* lines 230-252: the output file is written
TranslateSave ==
    /\ stage = "translate" /\ pc = "save"
    /\ output' = translated_segments
    /\ LET output_path == path_join(output_dir, translated_name(json_files[file_idx]))
           output_data == output_data_of(metadata, translated_segments,
                                         translated_texts, segments)
       IN  /\ fs' = write_file(fs, output_path, output_data)
           /\ writes' = Append(writes, [path |-> output_path, file |-> file_idx])
    /\ log' = Append(log, "saved")
    /\ pc' = "done"
    /\ UNCHANGED << pipevars, stage, language, batch_size, segments, batch_idx, cleaned_segments,
                    texts_to_translate, segment_indices, translated_texts,
                    translated_segments, calls, outcomes >>
    /\ UNCHANGED << events, api_key, estimate_only, input_dir, output_dir, json_files,
                    file_idx, metadata, main_pc, success_count, summary, reads >>

\* lines 254-256: writing the output file fails
TranslateSaveError ==
    /\ stage = "translate" /\ pc = "save"
    /\ pc' = "failed"
    /\ log' = Append(log, "save_error")
    /\ UNCHANGED << pipevars, stage, language, batch_size, segments, batch_idx, cleaned_segments,
                    texts_to_translate, segment_indices, translated_texts,
                    translated_segments, output, calls, outcomes >>
    /\ UNCHANGED << events, api_key, estimate_only, input_dir, output_dir, json_files,
                    file_idx, fs, metadata, main_pc, success_count, summary, reads,
                    writes >>

Next ==
    \/ CleanupSkip
    \/ CleanupStart
    \/ CleanupChunkNoText
    \/ \E outcome \in CleanupOutcomes : CleanupChunkCall(outcome)
    \/ CleanupReturn
    \/ TranslateNothing
    \/ TranslateStart
    \/ \E outcome \in TranslateOutcomes : TranslateBatch(outcome)
    \/ TranslateReassemble
    \/ TranslateSave
    \/ TranslateSaveError

Spec == Init /\ [][Next]_vars

(***************************************************************************)
(* The runs of main() over a directory of transcript files.                *)
(***************************************************************************)
\* the command line
argvars ==
    << stage, language, batch_size, api_key, estimate_only, input_dir, output_dir,
       json_files >>

\* the locals of the function that works on one file
filevars ==
    << segments, metadata, batch_idx, cleaned_segments, texts_to_translate,
       segment_indices, translated_texts, translated_segments, output, calls,
       outcomes, events >>

\* a call of the function on the next file starts with fresh locals
NewFile(segs, meta) ==
    /\ segments' = segs
    /\ metadata' = meta
    /\ batch_idx' = 0
    /\ cleaned_segments' = <<>>
    /\ texts_to_translate' = <<>>
    /\ segment_indices' = <<>>
    /\ translated_texts' = <<>>
    /\ translated_segments' = <<>>
    /\ output' = <<>>
    /\ calls' = <<>>
    /\ outcomes' = <<>>
    /\ events' = <<>>

\* the path of the file in hand
json_path == path_join(input_dir, json_files[file_idx])

InitMain ==
    /\ stage \in {"cleanup", "translate"}
    /\ language = "en"
    /\ batch_size \in (IF stage = "cleanup" THEN {chunk_size} ELSE 1..MaxBatch)
    /\ api_key \in BOOLEAN
    /\ estimate_only \in (IF stage = "translate" THEN BOOLEAN ELSE {FALSE})
    /\ input_dir = "in"
    /\ output_dir \in {"in", "out"}
    /\ \E listing \in Listings(IF stage = "cleanup" THEN CleanupCatalog
                               ELSE TranslateCatalog, MaxFiles) :
           /\ json_files = [k \in 1..Len(listing) |-> listing[k].name]
           /\ fs = [p \in {path_join("in", listing[k].name) : k \in 1..Len(listing)} |->
                       (CHOOSE e \in {listing[k] : k \in 1..Len(listing)} :
                            e.name = p[2]).data]
    /\ file_idx = 0
    /\ main_pc = "args"
    /\ pc = "idle"
    /\ segments = <<>>
    /\ metadata = EmptyDict
    /\ batch_idx = 0
    /\ cleaned_segments = <<>>
    /\ texts_to_translate = <<>>
    /\ segment_indices = <<>>
    /\ translated_texts = <<>>
    /\ translated_segments = <<>>
    /\ output = <<>>
    /\ calls = <<>>
    /\ outcomes = <<>>
    /\ events = <<>>
    /\ success_count = 0
    /\ summary = <<>>
    /\ reads = <<>>
    /\ writes = <<>>
    /\ log = <<>>
    /\ NoPipeline

\* context_correct_transcript.py line 283: --api-key is required by the parser
CleanupArgsError ==
    /\ stage = "cleanup" /\ main_pc = "args"
    /\ ~api_key
    /\ main_pc' = "exit"
    /\ UNCHANGED << pipevars, argvars, filevars, pc, file_idx, fs, success_count, summary, reads,
                    writes, log >>

\* lines 290-300: the output directory, the file list, README.md
CleanupBegin ==
    /\ stage = "cleanup" /\ main_pc = "args"
    /\ api_key
    /\ fs' = write_file(fs, path_join(output_dir, README), Readme)
    /\ writes' = Append(writes, [path |-> path_join(output_dir, README), file |-> 0])
    /\ file_idx' = 1
    /\ main_pc' = "files"
    /\ UNCHANGED << pipevars, argvars, filevars, pc, success_count, summary, reads, log >>

\* lines 305-306: json.load raises, nothing catches it
CleanupLoadError ==
    /\ stage = "cleanup" /\ main_pc = "files"
    /\ file_idx <= Len(json_files)
    /\ fs[json_path].shape = "malformed"
    /\ reads' = Append(reads, [path |-> json_path, data |-> fs[json_path]])
    /\ log' = Append(log, "crash")
    /\ main_pc' = "crashed"
    /\ UNCHANGED << pipevars, argvars, filevars, pc, file_idx, fs, success_count, summary, writes >>

\* lines 308-314 and 114: segments[:3] raises on a dict, nothing catches it
CleanupWrappedError ==
    /\ stage = "cleanup" /\ main_pc = "files"
    /\ file_idx <= Len(json_files)
    /\ fs[json_path].shape = "wrapped"
    /\ reads' = Append(reads, [path |-> json_path, data |-> fs[json_path]])
    /\ log' = Append(log, "crash")
    /\ main_pc' = "crashed"
    /\ UNCHANGED << pipevars, argvars, filevars, pc, file_idx, fs, success_count, summary, writes >>

\* lines 302-314: the file holds a list, apply_transcript_cleanup is called
CleanupLoad ==
    /\ stage = "cleanup" /\ main_pc = "files"
    /\ file_idx <= Len(json_files)
    /\ fs[json_path].shape = "flat"
    /\ reads' = Append(reads, [path |-> json_path, data |-> fs[json_path]])
    /\ NewFile(fs[json_path].segments, EmptyDict)
    /\ pc' = "start"
    /\ main_pc' = "in_file"
    /\ UNCHANGED << pipevars, argvars, file_idx, fs, success_count, summary, writes, log >>

\* lines 316-322: the cleaned segments are written
CleanupWrite ==
    /\ stage = "cleanup" /\ main_pc = "in_file"
    /\ pc = "done"
    /\ LET output_file == path_join(output_dir, cleaned_name(json_files[file_idx]))
       IN  /\ fs' = write_file(fs, output_file, Flat(output))
           /\ writes' = Append(writes, [path |-> output_file, file |-> file_idx])
    /\ log' = Append(log, "saved")
    /\ file_idx' = file_idx + 1
    /\ pc' = "idle"
    /\ main_pc' = "files"
    /\ UNCHANGED << pipevars, argvars, filevars, success_count, summary, reads >>

\* lines 319-320: open or json.dump raises, nothing catches it
CleanupWriteError ==
    /\ stage = "cleanup" /\ main_pc = "in_file"
    /\ pc = "done"
    /\ log' = Append(log, "save_error")
    /\ main_pc' = "crashed"
    /\ UNCHANGED << pipevars, argvars, filevars, pc, file_idx, fs, success_count, summary, reads,
                    writes >>

\* line 302: the loop over the files ends, main returns
CleanupFinish ==
    /\ stage = "cleanup" /\ main_pc = "files"
    /\ file_idx > Len(json_files)
    /\ main_pc' = "finished"
    /\ UNCHANGED << pipevars, argvars, filevars, pc, file_idx, fs, success_count, summary, reads,
                    writes, log >>

\* translate_transcript.py lines 375-378: sys.exit without an API key
TranslateMissingKey ==
    /\ stage = "translate" /\ main_pc = "args"
    /\ ~api_key /\ ~estimate_only
    /\ main_pc' = "exit"
    /\ UNCHANGED << pipevars, argvars, filevars, pc, file_idx, fs, success_count, summary, reads,
                    writes, log >>

\* lines 383-395: the estimate is printed, main returns
TranslateEstimateOnly ==
    /\ stage = "translate" /\ main_pc = "args"
    /\ estimate_only
    /\ main_pc' = "finished"
    /\ UNCHANGED << pipevars, argvars, filevars, pc, file_idx, fs, success_count, summary, reads,
                    writes, log >>

\* TranslateBegin without the test of lines 375-378
TranslateBegin_NoKeyCheck ==
    /\ stage = "translate" /\ main_pc = "args"
    /\ ~estimate_only
    /\ json_files # <<>>
    /\ fs' = write_file(fs, path_join(output_dir, README), Readme)
    /\ writes' = Append(writes, [path |-> path_join(output_dir, README), file |-> 0])
    /\ file_idx' = 1
    /\ main_pc' = "files"
    /\ UNCHANGED << pipevars, argvars, filevars, pc, success_count, summary, reads, log >>

\* lines 375-421 (with --skip-confirm): README.md, the file list, the loop
TranslateBegin ==
    /\ stage = "translate" /\ main_pc = "args"
    /\ api_key /\ ~estimate_only
    /\ json_files # <<>>
    /\ fs' = write_file(fs, path_join(output_dir, README), Readme)
    /\ writes' = Append(writes, [path |-> path_join(output_dir, README), file |-> 0])
    /\ file_idx' = 1
    /\ main_pc' = "files"
    /\ UNCHANGED << pipevars, argvars, filevars, pc, success_count, summary, reads, log >>

\* lines 375-417: no JSON file in the directory, main returns
TranslateNoFiles ==
    /\ stage = "translate" /\ main_pc = "args"
    /\ api_key /\ ~estimate_only
    /\ json_files = <<>>
    /\ fs' = write_file(fs, path_join(output_dir, README), Readme)
    /\ writes' = Append(writes, [path |-> path_join(output_dir, README), file |-> 0])
    /\ main_pc' = "finished"
    /\ UNCHANGED << pipevars, argvars, filevars, pc, file_idx, success_count, summary, reads, log >>

\* lines 155-161: the file cannot be loaded, the function returns False
TranslateLoadError ==
    /\ stage = "translate" /\ main_pc = "files"
    /\ file_idx <= Len(json_files)
    /\ fs[json_path].shape = "malformed"
    /\ reads' = Append(reads, [path |-> json_path, data |-> fs[json_path]])
    /\ NewFile(<<>>, EmptyDict)
    /\ log' = Append(log, "load_error")
    /\ pc' = "failed"
    /\ main_pc' = "in_file"
    /\ UNCHANGED << pipevars, argvars, file_idx, fs, success_count, summary, writes >>

\* lines 155-171: the segments and the other top-level keys are taken
TranslateLoad ==
    /\ stage = "translate" /\ main_pc = "files"
    /\ file_idx <= Len(json_files)
    /\ fs[json_path].shape \in {"flat", "wrapped"}
    /\ reads' = Append(reads, [path |-> json_path, data |-> fs[json_path]])
    /\ NewFile(fs[json_path].segments, fs[json_path].metadata)
    /\ pc' = "start"
    /\ main_pc' = "in_file"
    /\ UNCHANGED << pipevars, argvars, file_idx, fs, success_count, summary, writes, log >>

\* TranslateFileReturn going on to the next file before the write of this one
TranslateFileReturn_BeforeWrite ==
    /\ stage = "translate" /\ main_pc = "in_file"
    /\ pc \in {"save", "done", "failed"}
    /\ success_count' = IF pc = "done" THEN success_count + 1 ELSE success_count
    /\ file_idx' = file_idx + 1
    /\ pc' = "idle"
    /\ main_pc' = "files"
    /\ UNCHANGED << pipevars, argvars, filevars, fs, summary, reads, writes, log >>

\* lines 432-442: the function has returned, True counts as a success
TranslateFileReturn ==
    /\ stage = "translate" /\ main_pc = "in_file"
    /\ pc \in {"done", "failed"}
    /\ success_count' = IF pc = "done" THEN success_count + 1 ELSE success_count
    /\ file_idx' = file_idx + 1
    /\ pc' = "idle"
    /\ main_pc' = "files"
    /\ UNCHANGED << pipevars, argvars, filevars, fs, summary, reads, writes, log >>

\* line 444: "Translation complete: {success_count}/{len(json_files)} files"
TranslateSummary ==
    /\ stage = "translate" /\ main_pc = "files"
    /\ file_idx > Len(json_files)
    /\ summary' = <<success_count, Len(json_files)>>
    /\ main_pc' = "finished"
    /\ UNCHANGED << pipevars, argvars, filevars, pc, file_idx, fs, success_count, reads, writes,
                    log >>

NextMain ==
    \/ CleanupArgsError
    \/ CleanupBegin
    \/ CleanupLoadError
    \/ CleanupWrappedError
    \/ CleanupLoad
    \/ CleanupSkip
    \/ CleanupStart
    \/ CleanupChunkNoText
    \/ \E outcome \in MainOutcomes : CleanupChunkCall(outcome)
    \/ CleanupReturn
    \/ CleanupWrite
    \/ CleanupWriteError
    \/ CleanupFinish
    \/ TranslateMissingKey
    \/ TranslateEstimateOnly
    \/ TranslateBegin
    \/ TranslateNoFiles
    \/ TranslateLoadError
    \/ TranslateLoad
    \/ TranslateNothing
    \/ TranslateStart
    \/ \E outcome \in MainOutcomes : TranslateBatch(outcome)
    \/ TranslateReassemble
    \/ TranslateSave
    \/ TranslateSaveError
    \/ TranslateFileReturn
    \/ TranslateSummary

SpecMain == InitMain /\ [][NextMain]_vars

(***************************************************************************)
(* run_pipeline (run_transcription_pipeline_v2.py): the stages as          *)
(* subprocesses, chained by the directory each one writes.  The state at   *)
(* the start is the one in which the try block of line 2018 is entered.    *)
(***************************************************************************)
\* most times the user asks to refine the cleanup
MaxRefinements == 1

\* lines 170-205: the output formats offered
OutputFormats == {"fcpxml", "itt", "markdown", "json"}

\* lines 2282-2368: the configurations main hands to run_pipeline
PipelineConfigs ==
    { [mode |-> "new", context_correction |-> c, translation |-> t,
       diarization |-> d, output_format |-> f]
          : c \in BOOLEAN, t \in BOOLEAN, d \in BOOLEAN, f \in OutputFormats }
    \cup { [mode |-> "existing_operations", context_correction |-> c, translation |-> ~c,
            diarization |-> FALSE, output_format |-> f]
               : c \in BOOLEAN, f \in OutputFormats }
    \cup { [mode |-> "reuse", context_correction |-> FALSE, translation |-> FALSE,
            diarization |-> FALSE, output_format |-> f]
               : f \in OutputFormats }

\* how a stage's subprocess ends: exit status 0, a non-zero exit status
\* (CalledProcessError), or the user's interrupt (KeyboardInterrupt)
StageResults == {"ok", "failed", "interrupted"}

\* config['input']['input_dir']: the audio and video files
MediaDir == <<0, "input_dir">>

\* config['input']['transcript_dir']: the transcripts supplied
SuppliedTranscriptDir == <<0, "transcript_dir">>

\* lines 1974-1987: output_base / f"{stage_num}_{stage_name}"
create_stage_directory(stage_num, stage_name) == <<stage_num, stage_name>>

\* lines 2143, 2165, 2188: the directories that are not numbered
TranslatedDir == <<0, "translated_transcripts">>

DiarizedDir == <<0, "diarized_transcripts">>

FinalOutputDir == <<0, "final">>

\* subprocess.run(cmd, check=True) (or the copy of the JSON files): what is
\* on record of the stage, and how run_pipeline goes on
RunStage(name, src, dst, outcome, next_pc) ==
    /\ stage_runs' = Append(stage_runs,
                            [stage |-> name, src |-> src, dst |-> dst, outcome |-> outcome])
    /\ IF outcome = "ok"
       THEN /\ pl_pc' = next_pc
            /\ pipeline_result' = IF next_pc = "returned" THEN "True" ELSE pipeline_result
       \* lines 2250-2255: both exceptions make run_pipeline return False
       ELSE /\ pl_pc' = "returned"
            /\ pipeline_result' = "False"

\* the scripts are run as subprocesses: nothing of them is held here
scriptvars ==
    << stage, language, batch_size, segments, pc, batch_idx, cleaned_segments,
       texts_to_translate, segment_indices, translated_texts, translated_segments,
       output, calls, outcomes, events, mainvars >>

InitPipeline ==
    /\ config \in { c \in PipelineConfigs :
                        \* lines 1309-1316: no diarization is offered for JSON
                        (c.mode = "new" /\ c.output_format = "json") => ~c.diarization }
    /\ pl_pc = "transcription"
    /\ current_transcript_dir = <<>>
    /\ stage_counter = 1
    /\ refinements = 0
    /\ stage_runs = <<>>
    /\ pipeline_result = "none"
    /\ stage = "none" /\ language = "en" /\ batch_size = chunk_size
    /\ segments = <<>> /\ pc = "idle" /\ batch_idx = 0
    /\ cleaned_segments = <<>> /\ texts_to_translate = <<>> /\ segment_indices = <<>>
    /\ translated_texts = <<>> /\ translated_segments = <<>> /\ output = <<>>
    /\ calls = <<>> /\ outcomes = <<>> /\ events = <<>>
    /\ api_key = TRUE /\ estimate_only = FALSE
    /\ input_dir = "in" /\ output_dir = "out"
    /\ json_files = <<>> /\ file_idx = 0 /\ fs = NoFiles /\ metadata = EmptyDict
    /\ main_pc = "none" /\ success_count = 0 /\ summary = <<>>
    /\ reads = <<>> /\ writes = <<>> /\ log = <<>>

\* lines 2027-2032: existing transcripts, the transcription is skipped
PipelineSkipTranscription ==
    /\ pl_pc = "transcription"
    /\ config.mode \in {"existing_operations", "reuse"}
    /\ current_transcript_dir' = SuppliedTranscriptDir
    /\ pl_pc' = "cleanup"
    /\ UNCHANGED << config, stage_counter, refinements, stage_runs, pipeline_result,
                    scriptvars >>

\* lines 2034-2067: stage 1, scripts/transcribe.py
PipelineTranscribe(outcome) ==
    /\ pl_pc = "transcription"
    /\ config.mode = "new"
    /\ current_transcript_dir' = create_stage_directory(stage_counter, "raw_whisper")
    /\ stage_counter' = stage_counter + 1
    /\ RunStage("transcription", MediaDir, current_transcript_dir', outcome, "cleanup")
    /\ UNCHANGED << config, refinements, scriptvars >>

\* line 2070: no cleanup asked for
PipelineSkipCleanup ==
    /\ pl_pc = "cleanup"
    /\ ~config.context_correction
    /\ pl_pc' = "translation"
    /\ UNCHANGED << config, current_transcript_dir, stage_counter, refinements,
                    stage_runs, pipeline_result, scriptvars >>

\* lines 2070-2129: stage 2, scripts/context_correct_transcript.py, run again
\* on its own output when the user asks to refine the cleanup
PipelineCleanup(outcome, refine) ==
    /\ pl_pc = "cleanup"
    /\ config.context_correction
    /\ refine => refinements < MaxRefinements
    /\ LET cleaned_dir == create_stage_directory(stage_counter, "cleaned")
       IN  /\ RunStage("cleanup", current_transcript_dir, cleaned_dir, outcome,
                       IF refine THEN "cleanup" ELSE "translation")
           /\ current_transcript_dir' =
                  IF outcome = "ok" THEN cleaned_dir ELSE current_transcript_dir
    /\ stage_counter' = IF outcome = "ok" THEN stage_counter + 1 ELSE stage_counter
    /\ refinements' = IF outcome = "ok" /\ refine THEN refinements + 1 ELSE refinements
    /\ UNCHANGED << config, scriptvars >>

\* line 2142: no translation asked for (or the transcripts are reused)
PipelineSkipTranslation ==
    /\ pl_pc = "translation"
    /\ ~(config.translation /\ config.mode # "reuse")
    /\ pl_pc' = "diarization"
    /\ UNCHANGED << config, current_transcript_dir, stage_counter, refinements,
                    stage_runs, pipeline_result, scriptvars >>

\* PipelineTranslate going on after a failed subprocess (check=True left out)
PipelineTranslate_Unchecked(outcome) ==
    /\ pl_pc = "translation"
    /\ config.translation /\ config.mode # "reuse"
    /\ stage_runs' = Append(stage_runs,
                            [stage |-> "translation", src |-> current_transcript_dir,
                             dst |-> TranslatedDir, outcome |-> outcome])
    /\ pl_pc' = "diarization"
    /\ current_transcript_dir' = TranslatedDir
    /\ UNCHANGED << config, stage_counter, refinements, pipeline_result, scriptvars >>

\* lines 2142-2159: step 3, scripts/translate_transcript.py
PipelineTranslate(outcome) ==
    /\ pl_pc = "translation"
    /\ config.translation /\ config.mode # "reuse"
    /\ RunStage("translation", current_transcript_dir, TranslatedDir, outcome,
                "diarization")
    /\ current_transcript_dir' =
           IF outcome = "ok" THEN TranslatedDir ELSE current_transcript_dir
    /\ UNCHANGED << config, stage_counter, refinements, scriptvars >>

\* lines 2162-2163: no diarization asked for (or existing transcripts)
PipelineSkipDiarization ==
    /\ pl_pc = "diarization"
    /\ ~(config.diarization /\ config.mode \notin {"reuse", "existing_operations"})
    /\ pl_pc' = "final"
    /\ UNCHANGED << config, current_transcript_dir, stage_counter, refinements,
                    stage_runs, pipeline_result, scriptvars >>

\* lines 2162-2183: step 4, scripts/diarize_transcript.py
PipelineDiarize(outcome) ==
    /\ pl_pc = "diarization"
    /\ config.diarization /\ config.mode \notin {"reuse", "existing_operations"}
    /\ RunStage("diarization", current_transcript_dir, DiarizedDir, outcome, "final")
    /\ current_transcript_dir' =
           IF outcome = "ok" THEN DiarizedDir ELSE current_transcript_dir
    /\ UNCHANGED << config, stage_counter, refinements, scriptvars >>

\* lines 2186-2248: step 5 for markdown, fcpxml and itt: the generator script
PipelineRender(outcome) ==
    /\ pl_pc = "final"
    /\ config.output_format # "json"
    /\ RunStage("final", current_transcript_dir, FinalOutputDir, outcome, "returned")
    /\ UNCHANGED << config, current_transcript_dir, stage_counter, refinements,
                    scriptvars >>

\* lines 2222-2227: step 5 for json: the transcripts are copied, no subprocess
PipelineCopyJson ==
    /\ pl_pc = "final"
    /\ config.output_format = "json"
    /\ RunStage("final", current_transcript_dir, FinalOutputDir, "ok", "returned")
    /\ UNCHANGED << config, current_transcript_dir, stage_counter, refinements,
                    scriptvars >>

NextPipeline ==
    \/ PipelineSkipTranscription
    \/ \E outcome \in StageResults : PipelineTranscribe(outcome)
    \/ PipelineSkipCleanup
    \/ \E outcome \in StageResults, refine \in BOOLEAN : PipelineCleanup(outcome, refine)
    \/ PipelineSkipTranslation
    \/ \E outcome \in StageResults : PipelineTranslate(outcome)
    \/ PipelineSkipDiarization
    \/ \E outcome \in StageResults : PipelineDiarize(outcome)
    \/ \E outcome \in StageResults : PipelineRender(outcome)
    \/ PipelineCopyJson

SpecPipeline == InitPipeline /\ [][NextPipeline]_vars

(***************************************************************************)
(* Properties.                                                             *)
(***************************************************************************)
\* segment i of the input has text (it is not empty or whitespace-only)
HasText(i) == strip(segments[i].text) # <<>>

\* the number of batches of the file
NumBatches ==
    LET n == IF stage = "cleanup" THEN Len(segments)
             ELSE Cardinality({i \in 1..Len(segments) : HasText(i)})
    IN  (n + batch_size - 1) \div batch_size

\* the positions of the segments of batch b, in order
BatchPositions(b) ==
    IF stage = "cleanup"
    THEN [k \in 1..(Min(b * batch_size, Len(segments)) - (b - 1) * batch_size)
              |-> (b - 1) * batch_size + k]
    ELSE [k \in 1..(Min(b * batch_size, Len(segment_indices)) - (b - 1) * batch_size)
              |-> segment_indices[(b - 1) * batch_size + k]]

\* C1: the output has as many segments as the input, whatever the transformer
\* calls did; while the batches run, what has been built so far has one entry
\* per segment (cleanup) or per text (translation) of the batches done.
C1_Cardinality ==
    /\ pc = "done" => Len(output) = Len(segments)
    /\ pc = "save" => Len(translated_segments) = Len(segments)
    /\ (stage = "cleanup" /\ pc = "batches")
           => Len(cleaned_segments) = Min(batch_idx, Len(segments))
    /\ (stage = "translate" /\ pc = "batches")
           => Len(translated_texts) = Min(batch_idx, Len(texts_to_translate))

\* C1 witness: a file of two segments or more is done after a call that raised
\* and a call that returned the empty string.
C1_Witness ==
    /\ pc = "done" /\ Len(segments) >= 2 /\ Len(output) = Len(segments)
    /\ \E b \in 1..Len(outcomes) : outcomes[b].raised
    /\ \E b \in 1..Len(outcomes) :
           outcomes[b].called /\ ~outcomes[b].raised /\ outcomes[b].content = <<>>

\* C2: the segments of a batch whose call raised are identical in the output,
\* text included.
C2_FailedBatchIdentical ==
    pc = "done" =>
        \A b \in 1..Len(outcomes) :
            outcomes[b].raised =>
                \A k \in 1..Len(BatchPositions(b)) :
                    output[BatchPositions(b)[k]] = segments[BatchPositions(b)[k]]

\* C3: start, end and speaker of output segment i are those of input segment i.
C3_OtherFieldsKept ==
    LET same(out) ==
            /\ Len(out) = Len(segments)
            /\ \A i \in 1..Len(segments) :
                   /\ out[i].start = segments[i].start
                   /\ out[i].end = segments[i].end
                   /\ out[i].speaker = segments[i].speaker
    IN  /\ pc = "done" => same(output)
        /\ pc = "save" => same(translated_segments)

\* C3 witness: a finished file in which the second text to be replaced has been
\* replaced.
C3_Witness ==
    /\ pc = "done" /\ Len(segments) >= 2
    /\ \E i, j \in 1..Len(segments) :
           /\ i < j
           /\ output[i].text # segments[i].text
           /\ output[j].text # segments[j].text
           /\ output[j].start = segments[j].start

\* the words of the texts in a list, in order
RECURSIVE WordsOf(_)
WordsOf(texts) ==
    IF texts = <<>> THEN <<>> ELSE split(Head(texts)) \o WordsOf(Tail(texts))

\* the pieces of the translation requests in a list, in order
RECURSIVE PiecesOf(_)
PiecesOf(requests) ==
    IF requests = <<>> THEN <<>>
    ELSE split_on(Head(requests), <<"\n">> \o SEGMENT \o <<"\n">>) \o PiecesOf(Tail(requests))

\* the stripped texts of the segments that have text, in order
TextsWithContent ==
    SelectSeq([i \in 1..Len(segments) |-> strip(segments[i].text)], LAMBDA t : t # <<>>)

RunWith(outs) ==
    IF stage = "cleanup"
    THEN apply_transcript_cleanup(segments, language, outs)
    ELSE translated_segments_of(segments, batch_size, outs)

\* C5: the output segments of a batch k are what they would be had the call of
\* another batch j raised: a failure of j changes nothing outside j.
C5_BatchesIndependent ==
    (pc = "done" /\ outcomes # <<>>) =>
        \A j \in 1..Len(outcomes) :
            outcomes[j].called =>
                LET alt == RunWith([outcomes EXCEPT ![j] = Raise])
                IN  \A k \in (1..Len(outcomes)) \ {j} :
                        \A m \in 1..Len(BatchPositions(k)) :
                            alt[BatchPositions(k)[m]] = output[BatchPositions(k)[m]]

\* C5 witness: the first call raised, the second returned, and a text of the
\* second batch was replaced.
C5_Witness ==
    /\ pc = "done" /\ Len(outcomes) >= 2
    /\ outcomes[1].raised
    /\ outcomes[2].called /\ ~outcomes[2].raised
    /\ \E m \in 1..Len(BatchPositions(2)) :
           output[BatchPositions(2)[m]].text # segments[BatchPositions(2)[m]].text

\* the batches that hold a text
BatchesWithText ==
    {b \in 1..NumBatches : \E k \in 1..Len(BatchPositions(b)) : HasText(BatchPositions(b)[k])}

\* C6: failed calls never end the stage: while batches remain the next step is
\* enabled and every batch so far has been gone through, a stage fails only
\* for a file without text or at the write (translation), the batch loop ends
\* with one call per batch that has text, and a finished stage has its whole
\* output.
C6_NeverAborts ==
    /\ pc \in {"done", "failed"} \/ ENABLED Next
    /\ pc = "batches" => Len(outcomes) = batch_idx \div batch_size
    /\ pc = "failed" =>
           /\ stage = "translate"
           /\ TextsWithContent = <<>> \/ Len(outcomes) = NumBatches
    /\ (pc \in {"save", "done"} /\ ~(stage = "cleanup" /\ skip_cleanup(segments, language))) =>
           /\ Len(outcomes) = NumBatches
           /\ Len(calls) = Cardinality(BatchesWithText)
           /\ \A b \in BatchesWithText : outcomes[b].called
    /\ pc = "done" => Len(output) = Len(segments)

\* C6 witness: a file of two batches or more is done although every call raised.
C6_Witness ==
    /\ pc = "done" /\ Len(outcomes) >= 2
    /\ \A b \in 1..Len(outcomes) : outcomes[b].raised
    /\ Len(output) = Len(segments)

\* the texts sent in batch b of the translation
BatchTexts(b) == slice(texts_to_translate, (b - 1) * batch_size, batch_size)

\* the texts returned for batch b of the translation
BatchResult(b) == slice(translated_texts, (b - 1) * batch_size, batch_size)

\* the pieces recovered from the response of batch b
Pieces(b) ==
    LET pieces == clean_pieces(split_response(strip(outcomes[b].content)))
    IN  [k \in 1..Len(pieces) |-> strip(pieces[k])]

\* C7: every call of translate_text_chunk returns as many texts as it was
\* given: the texts themselves when the call raised, the first pieces in order
\* when the response has more pieces, and the pieces followed by padding when
\* it has fewer.
C7_ChunkCount ==
    stage = "translate" =>
        /\ Len(translated_texts) = Min(Len(outcomes) * batch_size, Len(texts_to_translate))
        /\ \A b \in 1..Len(outcomes) :
               LET n == Len(BatchTexts(b))
                   result == BatchResult(b)
                   pieces == Pieces(b)
               IN  /\ Len(result) = n
                   /\ IF outcomes[b].raised THEN result = BatchTexts(b)
                      ELSE IF Len(pieces) >= n THEN result = SubSeq(pieces, 1, n)
                      ELSE SubSeq(result, 1, Len(pieces)) = pieces

\* C7 witness: a batch of one text whose response had three pieces: the first
\* piece is returned, the other two are dropped.
C7_Witness ==
    /\ stage = "translate"
    /\ \E b \in 1..Len(outcomes) :
           /\ ~outcomes[b].raised
           /\ Len(BatchTexts(b)) = 1
           /\ Len(Pieces(b)) = 3
           /\ BatchResult(b) = << <<"x">> >>

\* C8: when the response of a batch of n texts has k < n pieces, the texts
\* returned are the k pieces followed by the texts k+1..n that were sent; for
\* the texts "Hello", "World" and the response "Hola" they are "Hola", "World".
C8_PaddedWithOriginals ==
    stage = "translate" =>
        \A b \in 1..Len(outcomes) :
            ~outcomes[b].raised =>
                LET texts == BatchTexts(b)
                    result == BatchResult(b)
                    pieces == Pieces(b)
                    n == Len(texts)
                    k == Len(pieces)
                IN  /\ k < n =>
                           /\ Len(result) = n
                           /\ \A m \in 1..k : result[m] = pieces[m]
                           /\ \A m \in (k + 1)..n : result[m] = texts[m]
                    /\ (texts = <<Hello, World>> /\ outcomes[b].content = Hola)
                           => result = <<Hola, World>>

\* C8 witness: the texts "Hello", "World" were sent and the response was "Hola".
C8_Witness ==
    /\ stage = "translate"
    /\ \E b \in 1..Len(outcomes) :
           /\ ~outcomes[b].raised
           /\ BatchTexts(b) = <<Hello, World>>
           /\ outcomes[b].content = Hola
           /\ BatchResult(b) = <<Hola, World>>

\* the positions of the segments of batch b that have text, in order
PositionsWithText(b) == SelectSeq(BatchPositions(b), LAMBDA i : HasText(i))

\* the number of words of the text of input segment i
WordCount(i) == Len(split(segments[i].text))

\* the number of words of the first k - 1 segments of the list ps
RECURSIVE WordsBefore(_, _)
WordsBefore(ps, k) ==
    IF k <= 1 THEN 0 ELSE WordsBefore(ps, k - 1) + WordCount(ps[k - 1])

\* the words of the response to cleanup chunk b
ResponseWords(b) == split(outcomes[b].content)

\* the response words that fall to the k-th segment of the list ps in chunk b
WordSlice(b, ps, k) ==
    join(<<" ">>, SubSeq(ResponseWords(b), WordsBefore(ps, k) + 1, WordsBefore(ps, k + 1)))

\* C9: when the response to a cleanup chunk has fewer words than the chunk's
\* texts, the first segment with text for which too few words remain and every
\* segment with text after it keep their original text, the segments before it
\* get their slice of the response words, and the chunk is not failed.
C9_UnderflowKeepsOriginal ==
    (stage = "cleanup" /\ pc = "done" /\ ~skip_cleanup(segments, language)) =>
        /\ Len(output) = Len(segments)
        /\ \A b \in 1..Len(outcomes) :
               LET ps == PositionsWithText(b)
                   short(k) == WordsBefore(ps, k + 1) > Len(ResponseWords(b))
               IN  (outcomes[b].called /\ ~outcomes[b].raised
                        /\ Len(ResponseWords(b)) < WordsBefore(ps, Len(ps) + 1))
                       => \A k \in 1..Len(ps) :
                              IF \E l \in 1..k : short(l)
                              THEN output[ps[k]].text = segments[ps[k]].text
                              ELSE output[ps[k]].text = WordSlice(b, ps, k)

\* C10: output segment i is input segment i with, at most, another text, and
\* the k-th text recovered for a batch is the text of the k-th segment with
\* text of that batch, whatever the texts are.
C10_RoutedByPosition ==
    LET built(out) ==
            /\ Len(out) = Len(segments)
            /\ \A i \in 1..Len(segments) : out[i] = [segments[i] EXCEPT !.text = out[i].text]
    IN  /\ pc = "done" => built(output)
        /\ (stage = "translate" /\ pc = "done") =>
               \A b \in 1..Len(outcomes) :
                   \A k \in 1..Len(BatchPositions(b)) :
                       output[BatchPositions(b)[k]].text = BatchResult(b)[k]
        /\ (stage = "cleanup" /\ pc = "done" /\ ~skip_cleanup(segments, language)) =>
               \A b \in 1..Len(outcomes) :
                   LET ps == PositionsWithText(b)
                   IN  (outcomes[b].called /\ ~outcomes[b].raised) =>
                           \A k \in 1..Len(ps) :
                               output[ps[k]].text =
                                   IF WordsBefore(ps, k + 1) <= Len(ResponseWords(b))
                                   THEN WordSlice(b, ps, k)
                                   ELSE strip(segments[ps[k]].text)

\* C10 witness: a translated file in which two segments with the same text got
\* different texts.
C10_Witness ==
    /\ stage = "translate" /\ pc = "done"
    /\ \E i, j \in 1..Len(segments) :
           /\ i < j /\ HasText(i)
           /\ segments[i].text = segments[j].text
           /\ output[i].text # output[j].text
           /\ output[i].text # segments[i].text
           /\ output[j].text # segments[j].text

\* batch b holds no segment with text
BatchWithoutText(b) ==
    \A k \in 1..Len(BatchPositions(b)) : ~HasText(BatchPositions(b)[k])

\* C11: a batch without a non-empty text causes no transformer call, and its
\* segments are in the output, at their positions, as they are in the input;
\* in the translation the batch of a file in which no segment has text is
\* the whole file.
C11_NoTextBatchPassesThrough ==
    /\ \A b \in 1..Len(outcomes) :
           BatchWithoutText(b) =>
               /\ outcomes[b] = NoCall
               /\ pc = "done" =>
                      \A k \in 1..Len(BatchPositions(b)) :
                          output[BatchPositions(b)[k]] = segments[BatchPositions(b)[k]]
    /\ (stage = "translate" /\ segments # <<>> /\ TextsWithContent = <<>>
            /\ pc \in {"done", "failed"}) =>
           /\ calls = <<>>
           /\ pc = "done"
           /\ output = segments

\* C12: the output of an input file is written at most once, and only when
\* the last batch of the file is done: a step that writes a transcript writes
\* one file, for the file in hand, for which nothing was written before, and
\* it is taken after the batch loop has gone through every batch.
C12_WrittenOnceAtEnd ==
    [][ writes' # writes =>
            /\ Len(writes') = Len(writes) + 1
            /\ SubSeq(writes', 1, Len(writes)) = writes
            /\ LET w == writes'[Len(writes')]
               IN  w.file # 0 =>
                       /\ w.file = file_idx
                       /\ \A k \in 1..Len(writes) : writes[k].file # w.file
                       /\ stage = "cleanup" =>
                              /\ pc = "done"
                              /\ \/ skip_cleanup(segments, language)
                                 \/ /\ batch_idx >= Len(segments)
                                    /\ Len(outcomes) = NumBatches
                       /\ stage = "translate" =>
                              /\ pc = "save"
                              /\ batch_idx >= Len(texts_to_translate)
                              /\ Len(outcomes) = NumBatches
      ]_vars

\* C12 witness: the output of a file of two batches, the first of which
\* failed, has been written, once.
C12_Witness ==
    /\ stage = "translate" /\ main_pc = "in_file" /\ pc = "done"
    /\ Len(outcomes) >= 2 /\ outcomes[1].raised
    /\ Cardinality({k \in 1..Len(writes) : writes[k].file = file_idx}) = 1

\* C13: no path the run reads as an input transcript is written by the run.
C13_InputsNeverWritten ==
    \A r \in 1..Len(reads) : \A w \in 1..Len(writes) : writes[w].path # reads[r].path

\* C14: a file json.load cannot read is skipped, and the run goes on: the bad
\* file ends with a load error and nothing else, and a run in which a bad file
\* was met ends having taken every file of the directory in hand.
C14_BadFileSkipped ==
    /\ \A i \in 1..Len(log) :
           reads[i].data.shape = "malformed" => log[i] = "load_error"
    /\ (main_pc \in {"finished", "crashed"}
            /\ \E i \in 1..Len(reads) : reads[i].data.shape = "malformed")
           => /\ main_pc = "finished"
              /\ Len(reads) = Len(json_files)

\* the input files for which an output file has been written
FilesWritten == {i \in 1..Len(json_files) : \E w \in 1..Len(writes) : writes[w].file = i}

\* C15: once the loop over the files has begun the run is never aborted, and
\* it ends with a summary that gives the number of files for which an output
\* was written and the number of files.
C15_SummaryCountsOutputs ==
    /\ main_pc # "crashed"
    /\ (main_pc = "finished" /\ file_idx >= 1) =>
           summary = <<Cardinality(FilesWritten), Len(json_files)>>

\* the writes made for input file i
WritesFor(i) == {w \in 1..Len(writes) : writes[w].file = i}

\* C16: for every file that could be loaded and whose processing has ended,
\* other than by a failure to write, one output file has been written, and it
\* holds as many segments as the input; the files without segments and the
\* files without text are among them.
C16_OneOutputPerFile ==
    \A i \in 1..Len(log) :
        (reads[i].data.shape \in {"flat", "wrapped"} /\ log[i] # "save_error") =>
            /\ Cardinality(WritesFor(i)) = 1
            /\ \A w \in WritesFor(i) :
                   Len(fs[writes[w].path].segments) = Len(reads[i].data.segments)

\* C17: a file that wraps its segments in an object is accepted as a file
\* that holds the list itself: the stage does not raise on it, and the output
\* segments are those the stage computes from the segment array of the file,
\* whatever the shape.
C17_BothShapesAccepted ==
    /\ \A i \in 1..Len(log) : reads[i].data.shape = "wrapped" => log[i] # "crash"
    /\ (main_pc = "in_file" /\ pc = "done") =>
           LET segs == reads[Len(reads)].data.segments
           IN  output = IF stage = "cleanup"
                        THEN apply_transcript_cleanup(segs, language, outcomes)
                        ELSE translated_segments_of(segs, batch_size, outcomes)

\* C18: in the translation, the output of a file that wraps its segments in
\* an object is an object with the segments, the other top-level keys of the
\* input and 'language' set to the target language; the output of a file
\* that holds a list is a list.
C18_WrappedOutputForWrappedInput ==
    stage = "translate" =>
        \A w \in 1..Len(writes) :
            writes[w].file # 0 =>
                LET input == reads[writes[w].file].data
                    written == fs[writes[w].path]
                IN  /\ input.shape = "flat" => written.shape = "flat"
                    /\ input.shape = "wrapped" =>
                           /\ written.shape = "wrapped"
                           /\ Len(written.segments) = Len(input.segments)
                           /\ "language" \in DOMAIN written.metadata
                           /\ written.metadata["language"] = target_language
                           /\ \A k \in DOMAIN input.metadata \ {"language"} :
                                  /\ k \in DOMAIN written.metadata
                                  /\ written.metadata[k] = input.metadata[k]

\* C19: between two successive transformer calls of a file there is a pause:
\* a call that is followed by anything is followed by a sleep.
C19_DelayBetweenCalls ==
    \A k \in 1..(Len(events) - 1) : events[k] = "call" => events[k + 1] = "sleep"

\* C20: without an API key the stage ends at startup: no transcript is opened
\* for processing, no transformer call is made and nothing is written, and
\* the run is over as soon as the arguments have been looked at (an exit, or
\* for --estimate-only the return after the estimate).
C20_MissingKeyFatal ==
    ~api_key =>
        /\ main_pc \in {"args", "exit", "finished"}
        /\ main_pc = "finished" => estimate_only
        /\ pc = "idle"
        /\ reads = <<>>
        /\ writes = <<>>
        /\ calls = <<>>
        /\ log = <<>>
        /\ DOMAIN fs = {path_join(input_dir, json_files[k]) : k \in 1..Len(json_files)}

\* C20 witness: a translation run without a key, on a directory with files,
\* has exited.
C20_Witness ==
    /\ ~api_key /\ stage = "translate" /\ json_files # <<>>
    /\ main_pc = "exit"
    /\ writes = <<>> /\ reads = <<>>

\* the texts of the segments in a list
TextsIn(segs) == [k \in 1..Len(segs) |-> segs[k].text]

\* C21: the cleanup of "Hello there", "Good morning", "See you" goes in batches
\* of two: the requests are "Hello there Good morning" and "See you", and when
\* the first call returns "Hi there Good day" and the second raises the output
\* texts are "Hi there", "Good day", "See you".
C21_GreetingScenario ==
    (stage = "cleanup" /\ language = "en" /\ pc = "done"
         /\ segments = GreetingTranscript) =>
        /\ calls = << HelloThere \o <<" ">> \o GoodMorning, SeeYou >>
        /\ (outcomes = << [called |-> TRUE, raised |-> FALSE, content |-> HiThereGoodDay],
                          Raise >>)
               => TextsIn(output)
                      = << <<"H", "i", " ", "t", "h", "e", "r", "e">>,
                           <<"G", "o", "o", "d", " ", "d", "a", "y">>,
                           SeeYou >>

\* the stripped non-empty texts of the b-th slice of batch_size segments
SliceTexts(b) ==
    SelectSeq(stripped_texts(slice(segments, (b - 1) * batch_size, batch_size)),
              LAMBDA t : t # <<>>)

\* the texts of the requests a partition of the whole segment list into slices
\* of batch_size makes, from slice b on
RECURSIVE SliceRequests(_)
SliceRequests(b) ==
    IF (b - 1) * batch_size >= Len(segments) THEN <<>>
    ELSE (IF SliceTexts(b) = <<>> THEN <<>> ELSE <<SliceTexts(b)>>) \o SliceRequests(b + 1)

\* C22: the batches are the contiguous slices of batch_size segments of the
\* whole segment list, every position in exactly one batch: a file of N
\* segments is gone through in ceil(N / batch_size) batches, batch b makes a
\* call exactly when slice b holds a text, and the requests carry, in order,
\* the non-empty texts of the slices.
C22_PartitionCoversSequence ==
    (pc \in {"save", "done"} /\ ~(stage = "cleanup" /\ skip_cleanup(segments, language))) =>
        /\ Len(outcomes) = (Len(segments) + batch_size - 1) \div batch_size
        /\ \A b \in 1..Len(outcomes) : outcomes[b].called <=> SliceTexts(b) # <<>>
        /\ Len(calls) = Len(SliceRequests(1))
        /\ \A k \in 1..Len(calls) :
               IF stage = "cleanup"
               THEN split(calls[k]) = WordsOf(SliceRequests(1)[k])
               ELSE split_on(calls[k], <<"\n">> \o SEGMENT \o <<"\n">>) = SliceRequests(1)[k]

\* C23: the work is strictly sequential.  A step that makes a transformer call
\* makes one, for the file in hand, which has not ended, and the step ends with
\* the call's outcome (returned or raised) on record, every earlier call having
\* its outcome already: no call is outstanding when the next one starts.  A
\* step that opens a file finds every file opened before it ended: written
\* ("saved") or given up.
C23_StrictlySequential ==
    [][ /\ (calls' # calls /\ reads' = reads) =>
               /\ Len(calls') = Len(calls) + 1
               /\ SubSeq(calls', 1, Len(calls)) = calls
               /\ Len(calls) = Cardinality({b \in 1..Len(outcomes) : outcomes[b].called})
               /\ Len(outcomes') = Len(outcomes) + 1
               /\ SubSeq(outcomes', 1, Len(outcomes)) = outcomes
               /\ outcomes'[Len(outcomes')].called
               /\ main_pc = "in_file"
               /\ Len(reads) = file_idx /\ Len(log) = file_idx - 1
        /\ reads' # reads =>
               /\ Len(reads') = Len(reads) + 1
               /\ Len(log) = Len(reads)
               /\ \A i \in 1..Len(log) :
                      /\ log[i] \in {"saved", "nothing", "load_error", "save_error"}
                      /\ log[i] = "saved" <=> WritesFor(i) # {}
      ]_vars

\* C23 witness: the second file of a directory has had a call made for it,
\* after the first file, for which a call was made too, was written.
C23_Witness ==
    /\ file_idx = 2 /\ main_pc = "in_file" /\ calls # <<>>
    /\ Len(log) >= 1 /\ log[1] = "saved" /\ WritesFor(1) # {}
    /\ outcomes # <<>> /\ outcomes[Len(outcomes)].called

\* C24: after a call that returned, none of the texts recovered from the
\* response (the texts returned for the batch, but for the padding) holds the
\* marker "---SEGMENT---" or its variant "---SEGMENTO---".
C24_NoMarkerLeft ==
    stage = "translate" =>
        \A b \in 1..Len(outcomes) :
            ~outcomes[b].raised =>
                \A k \in 1..Min(Len(Pieces(b)), Len(BatchResult(b))) :
                    /\ ~contains(BatchResult(b)[k], SEGMENT)
                    /\ ~contains(BatchResult(b)[k], SEGMENTO)

\* the texts of the first three segments, stripped and joined by blanks
SampleText == join(<<" ">>, stripped_texts(SubSeq(segments, 1, Min(3, Len(segments)))))

\* more than 30% of the characters of the sample are non-ASCII
MostlyNonAscii == 10 * count_non_ascii(SampleText) > 3 * Len(SampleText)

\* C25: when the language is not "en", or more than 30% of the characters of
\* the joined texts of the first three segments are non-ASCII, the cleanup
\* makes no transformer call (and no pause), goes through no chunk, and returns
\* the input segments as they are.
C25_SkippedForNonEnglish ==
    (stage = "cleanup" /\ (language # "en" \/ MostlyNonAscii)) =>
        /\ calls = <<>> /\ outcomes = <<>> /\ events = <<>>
        /\ cleaned_segments = <<>>
        /\ pc \in {"start", "done"}
        /\ pc = "done" => output = segments

\* C25 witness: an English-language run has returned a transcript whose sample
\* is mostly non-ASCII, untouched and without a call.
C25_Witness ==
    /\ stage = "cleanup" /\ language = "en" /\ pc = "done"
    /\ MostlyNonAscii
    /\ segments # <<>> /\ output = segments /\ calls = <<>>

\* the place of a stage in the pipeline's order
StageRank(name) ==
    CASE name = "transcription" -> 1
      [] name = "cleanup" -> 2
      [] name = "translation" -> 3
      [] name = "diarization" -> 4
      [] name = "final" -> 5

\* the stages the configuration asks for
EnabledStages ==
    (IF config.mode = "new" THEN {"transcription"} ELSE {})
    \cup (IF config.context_correction THEN {"cleanup"} ELSE {})
    \cup (IF config.translation THEN {"translation"} ELSE {})
    \cup (IF config.diarization THEN {"diarization"} ELSE {})
    \cup {"final"}

\* the runs of the stage called name
RunsOf(name) == {k \in 1..Len(stage_runs) : stage_runs[k].stage = name}

C27_WordCountKept ==
    stage = "cleanup" =>
        /\ pc = "done" =>
               \A i \in 1..Len(segments) :
                   HasText(i) => Len(split(output[i].text)) = WordCount(i)
        /\ \A i \in 1..Len(cleaned_segments) :
               HasText(i) => Len(split(cleaned_segments[i].text)) = WordCount(i)

\* C27 witness: a segment of two words has got two other words, next to a
\* segment that kept its text because the response ran out of words.
C27_Witness ==
    /\ stage = "cleanup" /\ pc = "done"
    /\ \E i, j \in 1..Len(segments) :
           /\ i < j
           /\ WordCount(i) = 2 /\ Len(split(output[i].text)) = 2
           /\ split(output[i].text) # split(segments[i].text)
           /\ HasText(j) /\ output[j].text = strip(segments[j].text)
           /\ ~outcomes[1].raised

\* the positions of the list ps, from the k-th on, whose segments did not fall
\* back in chunk b: enough response words were left for them
RECURSIVE KeptFrom(_, _, _)
KeptFrom(b, ps, k) ==
    IF k > Len(ps) THEN <<>>
    ELSE (IF WordsBefore(ps, k + 1) <= Len(ResponseWords(b)) THEN <<ps[k]>> ELSE <<>>)
         \o KeptFrom(b, ps, k + 1)

\* the word counts of the segments at the positions in a list, summed
RECURSIVE SumWordCounts(_)
SumWordCounts(ps) == IF ps = <<>> THEN 0 ELSE WordCount(Head(ps)) + SumWordCounts(Tail(ps))

\* C28: in a cleanup chunk whose call returned, the output texts of the
\* segments that did not fall back hold, in order, exactly the first K words of
\* the response, K being the sum of those segments' word counts: no word
\* twice, none left out before K; the words from K on are in no text: the
\* other segments with text have their own (stripped) text.
C28_FirstWordsUsed ==
    (stage = "cleanup" /\ pc = "done" /\ ~skip_cleanup(segments, language)) =>
        \A b \in 1..Len(outcomes) :
            (outcomes[b].called /\ ~outcomes[b].raised) =>
                LET ps == PositionsWithText(b)
                    kept == KeptFrom(b, ps, 1)
                    K == SumWordCounts(kept)
                IN  /\ K <= Len(ResponseWords(b))
                    /\ WordsOf([k \in 1..Len(kept) |-> output[kept[k]].text])
                           = SubSeq(ResponseWords(b), 1, K)
                    /\ \A k \in 1..Len(ps) :
                           (\A m \in 1..Len(kept) : kept[m] # ps[k])
                               => output[ps[k]].text = strip(segments[ps[k]].text)

\* C28 witness: a chunk whose response of three words gave the first segment
\* its two words; the third word is dropped and the later segments fell back.
C28_Witness ==
    /\ stage = "cleanup" /\ pc = "done" /\ outcomes # <<>>
    /\ outcomes[1].called /\ ~outcomes[1].raised
    /\ Len(ResponseWords(1)) = 3
    /\ KeptFrom(1, PositionsWithText(1), 1) = <<1>>
    /\ split(output[1].text) = SubSeq(ResponseWords(1), 1, 2)
    /\ Len(PositionsWithText(1)) = 3
    /\ output[3].text = segments[3].text

\* the batches gone through so far for which a call was made, in order
CalledBatches ==
    SelectSeq([b \in 1..Len(outcomes) |-> b], LAMBDA b : outcomes[b].called)

\* the user content of the request for batch b
RequestOf(b) ==
    IF stage = "cleanup"
    THEN combined_text(slice(segments, (b - 1) * batch_size, batch_size))
    ELSE joined_texts(BatchTexts(b))

\* C29: the transformer is called at most once per batch, and not again after
\* a failure: the calls made so far are, in order, one for each batch gone
\* through that holds a text (a failed one included), and when the batches are
\* done the number of calls is the number of batches that hold a text.
C29_OneCallPerBatch ==
    (stage \in {"cleanup", "translate"}
         /\ ~(stage = "cleanup" /\ skip_cleanup(segments, language))) =>
        /\ Len(outcomes) <= NumBatches
        /\ Len(calls) = Len(CalledBatches)
        /\ \A k \in 1..Len(calls) :
               /\ CalledBatches[k] \in BatchesWithText
               /\ calls[k] = RequestOf(CalledBatches[k])
        /\ \A b \in 1..Len(outcomes) : outcomes[b].raised => outcomes[b].called
        /\ pc \in {"save", "done"} => Len(calls) = Cardinality(BatchesWithText)

\* C29 witness: a file of two batches with text is done with two calls made,
\* the first of which raised.
C29_Witness ==
    /\ pc = "done" /\ Len(outcomes) = 2 /\ Len(calls) = 2
    /\ outcomes[1].raised /\ ~outcomes[2].raised
    /\ Cardinality(BatchesWithText) = 2

\* the segments the file in hand held when it was loaded
LoadedSegments == reads[Len(reads)].data.segments

\* C30: the list of segments a stage works on is not changed by it: from the
\* load to the end of the stage, whatever the transformer calls did, it is the
\* list that was loaded (same length, every segment with the same fields and
\* values, text included); the texts that change are in the lists built from
\* copies.
C30_InputNotMutated ==
    (stage \in {"cleanup", "translate"} /\ pc \in {"start", "batches", "save", "done"}) =>
        /\ reads # <<>>
        /\ Len(segments) = Len(LoadedSegments)
        /\ \A i \in 1..Len(segments) : segments[i] = LoadedSegments[i]

\* C30 witness: a stage is done, a text of its output differs from the input's,
\* and the input list is as it was loaded.
C30_Witness ==
    /\ pc = "done" /\ calls # <<>>
    /\ \E i \in 1..Len(segments) :
           /\ output[i].text # segments[i].text
           /\ segments[i] = LoadedSegments[i]
    /\ segments = LoadedSegments

====
